---------------------------- MODULE Spec2Model ----------------------------
(* Model of the google-scholar-daily-fetcher pipeline:                      *)
(*   GET /api/authors/fetch-articles?authors=A,B,C                          *)
(*   AuthorArticleController.fetchArticlesByAuthors  (parserService.js)     *)
(*   SerpApiService.search / searchByAuthor          (serpApiService.js)    *)
(*   ArticleModel.create / existsByGoogleScholarId   (parserService.js)     *)
(*   articles table, UNIQUE google_scholar_id        (migrate.js)           *)
(* Strings that the code inspects character by character (the authors      *)
(* query parameter, titles) are sequences of one-character strings.  Error  *)
(* messages are sequences of parts, so that String.includes is a search.    *)
(* Each action is one synchronous segment of a handler between two awaits.  *)
EXTENDS Integers, Sequences, FiniteSets, TLC

VARIABLES
  articles,   \* the articles table: rows in insertion order
  run,        \* per request: the handler's locals and position; what it
              \* awaited (calls) and what came back (returns)
  faults,     \* environment failures injected so far
  served,     \* requests accepted so far
  history,    \* [author, g]: records saved by requests that have responded
  thrown,     \* the error handed to the global error handler
  reply,      \* the response the error handler sent
  hits,       \* per client IP: what the rate limiters counted in the window
  summary,    \* a publication_info.summary handed to the parser
  info        \* what parsePublicationInfo returned for it

vars == <<articles, run, faults, served, history, thrown, reply, hits, summary, info>>

\* the state of the fetch-articles pipeline, and the state outside it
pipeline == <<articles, run, faults, served, history>>
aside == <<thrown, reply, hits, summary, info>>

----------------------------------------------------------------------------
(* Bounds of the model                                                      *)

\* HTTP requests that may be in flight together
NRuns == 2
\* HTTP requests per behaviour
MaxRequests == 2
\* environment failures (search failures, storage failures) per behaviour
MaxFaults == 3

Runs == 1..NRuns

----------------------------------------------------------------------------
(* JavaScript values                                                        *)

\* null / undefined for character strings and for scalar strings
NULL == <<"null">>
UNDEF == <<"undefined">>
NoId == "null"
\* an absent `error` property of a sub-summary
NoError == <<>>

Truthy(s) == s # NULL /\ s # UNDEF /\ s # <<>>

IsSpace(ch) == ch = " "

RECURSIVE SplitComma(_)
\* String.prototype.split(',')
SplitComma(s) ==
  IF \E p \in 1..Len(s) : s[p] = ","
  THEN LET p == CHOOSE q \in 1..Len(s) :
                  s[q] = "," /\ \A u \in 1..(q - 1) : s[u] # ","
       IN <<SubSeq(s, 1, p - 1)>> \o SplitComma(SubSeq(s, p + 1, Len(s)))
  ELSE <<s>>

RECURSIVE TrimLeft(_)
TrimLeft(s) == IF s # <<>> /\ IsSpace(Head(s)) THEN TrimLeft(Tail(s)) ELSE s

RECURSIVE TrimRight(_)
TrimRight(s) ==
  IF s # <<>> /\ IsSpace(s[Len(s)]) THEN TrimRight(SubSeq(s, 1, Len(s) - 1)) ELSE s

\* String.prototype.trim
Trim(s) == TrimRight(TrimLeft(s))

RECURSIVE CollapseSpaces(_)
\* str.replace(/\s+/g, ' ')
CollapseSpaces(s) ==
  IF Len(s) < 2 THEN s
  ELSE IF IsSpace(s[1]) /\ IsSpace(s[2]) THEN CollapseSpaces(Tail(s))
  ELSE <<Head(s)>> \o CollapseSpaces(Tail(s))

\* ParserService.sanitizeString
sanitizeString(str) == IF ~Truthy(str) THEN NULL ELSE Trim(CollapseSpaces(str))

\* String.prototype.includes on a message made of parts
Includes(msg, part) == \E p \in 1..Len(msg) : msg[p] = part

\* Array.prototype.indexOf, 0-based
IndexOf(list, x) ==
  IF \E p \in 1..Len(list) : list[p] = x
  THEN (CHOOSE p \in 1..Len(list) :
          list[p] = x /\ \A u \in 1..(p - 1) : list[u] # x) - 1
  ELSE 0 - 1

----------------------------------------------------------------------------
(* The external search API (SerpAPI): what axios.get can produce            *)

Str(a) == <<a>>
NameA == Str("a")
NameB == Str("b")
NameC == Str("c")

\* one raw organic result: result_id, title, inline_links.cited_by.total
\* (cited_by is << >> when the item has no citation link, else <<total>>)
Item(id, title, total) == [result_id |-> id, title |-> title, cited_by |-> <<total>>]
Uncited(id, title) == [result_id |-> id, title |-> title, cited_by |-> << >>]

\* organic_results the API holds for an author query (one page, at most 10)
Catalog(name) ==
  CASE name = NameA -> << Item("g1", Str("P"), 7), Uncited("g2", Str("Q")),
                          Item("g3", Str("R"), 2),
                          Item("g4", <<"S", " ", " ", "V">>, 0 - 1) >>
    [] name = NameB -> << Item("g3", Str("R"), 2), Item("g6", NULL, 4),
                          Item("g5", <<" ", " ">>, 0) >>
    [] OTHER -> << >>

\* messages carried by failures of the HTTP call
TimeoutMsg == "timeout of 30000ms exceeded"
HttpMsg == "Request failed with status code 401"
RemoteMsg == "Invalid API key"
QuotaMsg == "Your account has run out of searches"

\* the outcomes of axios.get(baseUrl, {params, timeout: 30000})
\*   resolved : a 2xx response, data is the parsed body
\*   rejected : hasResponse says whether error.response is set
Resolved(err, organic) ==
  [kind |-> "resolved", dataError |-> err, organic |-> organic,
   hasResponse |-> TRUE, message |-> ""]
Rejected(hasResponse, err, message) ==
  [kind |-> "rejected", dataError |-> err, organic |-> << >>,
   hasResponse |-> hasResponse, message |-> message]

AxiosSuccess(name) == Resolved("", Catalog(name))
AxiosFailures ==
  { Resolved(QuotaMsg, << >>),          \* 200 with an embedded error field
    Rejected(TRUE, RemoteMsg, HttpMsg), \* non-2xx with an error body
    Rejected(FALSE, "", TimeoutMsg) }   \* timeout / no connection

\* SerpApiService.search: [ok, data] or [~ok, message thrown]
\* The throw inside the try block is caught by the same catch clause.
Thrown(msg) == [ok |-> FALSE, message |-> msg, organic |-> << >>]
Returned(organic) == [ok |-> TRUE, message |-> << >>, organic |-> organic]

SearchCatch(hasResponse, dataError, message) ==
  IF hasResponse
  THEN Thrown(<<"SerpAPI Error", IF dataError # "" THEN dataError ELSE message>>)
  ELSE Thrown(<<"Network Error", message>>)

search(o) ==
  IF o.kind = "resolved"
  THEN IF o.dataError # ""
       THEN SearchCatch(FALSE, "", o.dataError)   \* new Error(data.error): no .response
       ELSE Returned(o.organic)
  ELSE SearchCatch(o.hasResponse, o.dataError, o.message)

\* SerpApiService.searchByAuthor(authorName, 0)
searchByAuthor(o) == search(o)

----------------------------------------------------------------------------
(* ParserService                                                            *)

\* ParserService.parseOrganicResult (the fields the pipeline stores)
parseOrganicResult(result) ==
  [google_scholar_id |-> IF result.result_id = "" THEN NoId ELSE result.result_id,
   title |-> IF Truthy(result.title) THEN result.title ELSE NULL,
   citation_count |-> IF result.cited_by = << >> THEN 0 ELSE result.cited_by[1]]

\* ParserService.parseOrganicResults
parseOrganicResults(results) ==
  [p \in 1..Len(results) |-> parseOrganicResult(results[p])]

\* ParserService.isValidPublication
isValidPublication(publication) ==
  Truthy(publication.title) /\ publication.google_scholar_id # NoId

\* ParserService.filterValidPublications
filterValidPublications(publications) == SelectSeq(publications, isValidPublication)

----------------------------------------------------------------------------
(* The articles table and ArticleModel                                      *)

Row(id, a, deleted) ==
  [id |-> id, google_scholar_id |-> a.google_scholar_id,
   paper_title |-> a.paper_title, citation_count |-> a.citation_count,
   deleted |-> deleted]

\* (variant: the column without its UNIQUE index)
NoUniqueIndex(table, gsid) == FALSE

\* google_scholar_id VARCHAR(50) UNIQUE: the index covers soft-deleted rows
UniqueViolation(table, gsid) ==
  gsid # NoId /\ \E p \in 1..Len(table) : table[p].google_scholar_id = gsid

\* pool.execute(INSERT ...): the statement as the storage engine runs it
ExecuteInsert(table, a) ==
  IF a.paper_title = NULL
  THEN [code |-> "ER_BAD_NULL_ERROR", table |-> table, insertId |-> 0]
  ELSE IF UniqueViolation(table, a.google_scholar_id)
  THEN [code |-> "ER_DUP_ENTRY", table |-> table, insertId |-> 0]
  ELSE [code |-> "OK", insertId |-> Len(table) + 1,
        table |-> Append(table, Row(Len(table) + 1, a, FALSE))]

AlreadyExistsMsg == <<"Article with google_scholar_id", "already exists">>
BadNullMsg == <<"Column 'paper_title' cannot be null">>
ConnectionLostMsg == <<"Connection lost: The server closed the connection.">>

\* ArticleModel.create: lost says the connection failed before the statement ran
create(table, articleData, lost) ==
  IF lost
  THEN [ok |-> FALSE, message |-> ConnectionLostMsg, table |-> table, insertId |-> 0]
  ELSE LET x == ExecuteInsert(table, articleData)
       IN IF x.code = "OK"
          THEN [ok |-> TRUE, message |-> << >>, table |-> x.table,
                insertId |-> x.insertId]
          ELSE IF x.code = "ER_DUP_ENTRY"
          THEN [ok |-> FALSE, message |-> AlreadyExistsMsg, table |-> table,
                insertId |-> 0]
          ELSE [ok |-> FALSE, message |-> BadNullMsg, table |-> table, insertId |-> 0]

\* (variant: a check that never finds a row)
existsNever(table, googleScholarId) == FALSE

\* ArticleModel.existsByGoogleScholarId:
\*   SELECT COUNT(*) ... WHERE google_scholar_id = ? AND deleted_at IS NULL
existsByGoogleScholarId(table, googleScholarId) ==
  \E p \in 1..Len(table) :
    table[p].google_scholar_id = googleScholarId /\ ~table[p].deleted

----------------------------------------------------------------------------
(* AuthorArticleController.fetchArticlesByAuthors                           *)

\* "Maximum 3 articles per author"
SaveCap == 3
\* the number of names the endpoint accepts
RequiredAuthors == 3

RequiredMsg ==
  <<"Query parameter \"authors\" is required",
    "(comma-separated list of 3 author names)">>
ExactlyMsg == <<"Exactly 3 author names are required, separated by commas">>
NoArticlesMsg == <<"No articles found">>

\* an awaited call: for author position i, candidate k, identifier g
Call(op, i, k, g) == [op |-> op, i |-> i, k |-> k, g |-> g]

NoResponse == [status |-> 0, success |-> FALSE, error |-> NoError]

NewResults ==
  [authors |-> << >>, total_fetched |-> 0, total_saved |-> 0,
   total_already_exists |-> 0, articles_saved |-> << >>]

NewAuthorResult(authorName) ==
  [author |-> authorName, fetched |-> 0, saved |-> 0, already_exists |-> 0,
   articles |-> << >>, error |-> NoError]

IdleRun ==
  [pc |-> "idle", query |-> UNDEF, authorList |-> << >>, i |-> 0,
   authorResult |-> NewAuthorResult(NULL), validArticles |-> << >>, k |-> 0,
   savedCount |-> 0, results |-> NewResults, response |-> NoResponse,
   calls |-> << >>, returns |-> << >>, skipped |-> {}, earlier |-> {}]

NonEmpty(a) == a # << >>

\* authors.split(',').map(a => a.trim()).filter(a => a)
ParseAuthorList(authors) ==
  LET parts == SplitComma(authors)
  IN SelectSeq([p \in 1..Len(parts) |-> Trim(parts[p])], NonEmpty)

\* (variant: only a lower bound on the number of names)
TooFew(authorList) == Len(authorList) < RequiredAuthors

\* authorList.length !== 3
WrongCount(authorList) == Len(authorList) # RequiredAuthors

\* res.status(400).json({success: false, error})
Respond400(rn, message) ==
  [rn EXCEPT !.pc = "done",
             !.response = [status |-> 400, success |-> FALSE, error |-> message]]

\* res.status(200).json({success: true, ...})
Respond200(rn) ==
  [rn EXCEPT !.pc = "done",
             !.response = [status |-> 200, success |-> TRUE, error |-> NoError]]

\* top of the for-of body over authorList: a fresh authorResult, then the search
BeginAuthor(rn, i) ==
  [rn EXCEPT !.i = i, !.authorResult = NewAuthorResult(rn.authorList[i]),
             !.validArticles = << >>, !.k = 0, !.savedCount = 0,
             !.pc = "search", !.calls = Append(@, Call("search", i, 0, NoId))]

\* results.authors.push(authorResult)
PushAuthor(rn) == [rn EXCEPT !.results.authors = Append(@, rn.authorResult)]

\* the next iteration of the for-of over authorList, or the response
NextAuthor(rn) ==
  IF rn.i < Len(rn.authorList) THEN BeginAuthor(rn, rn.i + 1) ELSE Respond200(rn)

\* (variant: the catch clause searches the same author again)
CatchAuthorRetries(rn, message) ==
  BeginAuthor([rn EXCEPT !.authorResult.error = message], rn.i)

\* (variant: the catch clause ends the loop over the authors)
CatchAuthorEndsRun(rn, message) ==
  Respond200(PushAuthor([rn EXCEPT !.authorResult.error = message]))

\* catch (authorError): record the message, then push below the try
CatchAuthor(rn, message) ==
  NextAuthor(PushAuthor([rn EXCEPT !.authorResult.error = message]))

\* (variant: the "no results" branch continues without the push)
NoResultsNoPush(rn) ==
  NextAuthor([rn EXCEPT !.authorResult.error = NoArticlesMsg])

\* the "no results" branch: error, push, continue
NoResults(rn) ==
  NextAuthor(PushAuthor([rn EXCEPT !.authorResult.error = NoArticlesMsg]))

\* after the for-of over validArticles: the pause, unless indexOf says last
AfterLoop(rn) ==
  IF IndexOf(rn.authorList, rn.authorResult.author) < Len(rn.authorList) - 1
  THEN [rn EXCEPT !.pc = "delay", !.calls = Append(@, Call("delay", rn.i, 0, NoId))]
  ELSE NextAuthor(PushAuthor(rn))

\* (variant: the loop without its cap)
LoopHeadNoCap(rn) ==
  IF rn.k > Len(rn.validArticles)
  THEN AfterLoop(rn)
  ELSE [rn EXCEPT !.pc = "exists",
                  !.calls = Append(@, Call("exists", rn.i, rn.k,
                                           rn.validArticles[rn.k].google_scholar_id))]

\* head of the for-of over validArticles: the cap, then the existence check
LoopHead(rn) ==
  IF rn.k > Len(rn.validArticles) \/ rn.savedCount >= SaveCap
  THEN AfterLoop(rn)
  ELSE [rn EXCEPT !.pc = "exists",
                  !.calls = Append(@, Call("exists", rn.i, rn.k,
                                           rn.validArticles[rn.k].google_scholar_id))]

\* entry of the handler up to its first await
fetchArticlesByAuthors(rn) ==
  IF ~Truthy(rn.query) THEN Respond400(rn, RequiredMsg)
  ELSE LET authorList == ParseAuthorList(rn.query)
       IN IF WrongCount(authorList) THEN Respond400(rn, ExactlyMsg)
          ELSE BeginAuthor([rn EXCEPT !.authorList = authorList], 1)

\* after await searchByAuthor: parse, filter, count, enter the save loop
OnSearch(rn, res) ==
  IF ~res.ok THEN CatchAuthor(rn, res.message)
  ELSE IF Len(res.organic) = 0 THEN NoResults(rn)
  ELSE LET validArticles == filterValidPublications(parseOrganicResults(res.organic))
       IN LoopHead([rn EXCEPT !.validArticles = validArticles,
                              !.authorResult.fetched = Len(validArticles),
                              !.results.total_fetched = @ + Len(validArticles),
                              !.savedCount = 0, !.k = 1])

\* (variant: only the author's counter is incremented)
CountExistsAuthorOnly(rn, via) ==
  [rn EXCEPT !.authorResult.already_exists = @ + 1,
             !.skipped = @ \cup {[i |-> rn.i, via |-> via,
                                  g |-> rn.validArticles[rn.k].google_scholar_id]}]

\* authorResult.already_exists++; results.total_already_exists++
\* (skipped notes which candidate was counted, and on which path)
CountExists(rn, via) ==
  [rn EXCEPT !.authorResult.already_exists = @ + 1,
             !.results.total_already_exists = @ + 1,
             !.skipped = @ \cup {[i |-> rn.i, via |-> via,
                                  g |-> rn.validArticles[rn.k].google_scholar_id]}]

\* (variant: a candidate found to exist uses a save slot)
OnExistsUsesSlot(rn, exists) ==
  IF exists
  THEN LoopHead([CountExists(rn, "check") EXCEPT !.k = @ + 1, !.savedCount = @ + 1])
  ELSE [rn EXCEPT !.pc = "create",
                  !.calls = Append(@, Call("create", rn.i, rn.k,
                                           rn.validArticles[rn.k].google_scholar_id))]

\* after await existsByGoogleScholarId
OnExists(rn, exists) ==
  IF exists
  THEN LoopHead([CountExists(rn, "check") EXCEPT !.k = @ + 1])
  ELSE [rn EXCEPT !.pc = "create",
                  !.calls = Append(@, Call("create", rn.i, rn.k,
                                           rn.validArticles[rn.k].google_scholar_id))]

\* n || 0 on a number
OrZero(n) == IF n = 0 THEN 0 ELSE n

\* const dbArticle = {...}
PrepareArticle(article) ==
  [google_scholar_id |-> article.google_scholar_id,
   paper_title |-> sanitizeString(article.title),
   citation_count |-> OrZero(article.citation_count)]

\* the statements after a successful create
Saved(rn, dbArticle, articleId) ==
  [rn EXCEPT !.authorResult.saved = @ + 1, !.savedCount = @ + 1,
             !.results.total_saved = @ + 1,
             !.authorResult.articles =
                Append(@, [id |-> articleId,
                           google_scholar_id |-> dbArticle.google_scholar_id,
                           title |-> dbArticle.paper_title,
                           citation_count |-> dbArticle.citation_count]),
             !.results.articles_saved =
                Append(@, [article_id |-> articleId, title |-> dbArticle.paper_title,
                           author_searched |-> rn.authorResult.author])]

\* (variant: every failed insert is dropped without being counted)
OnSaveErrorDropsAll(rn, message) == rn

\* (variant: every failed insert is counted as a duplicate)
OnSaveErrorCountsAll(rn, message) == CountExists(rn, "insert")

\* catch (saveError)
OnSaveError(rn, message) ==
  IF Includes(message, "already exists") THEN CountExists(rn, "insert") ELSE rn

\* after await create, to the head of the next iteration
OnCreate(rn, dbArticle, res) ==
  LET done == IF res.ok THEN Saved(rn, dbArticle, res.insertId)
              ELSE OnSaveError(rn, res.message)
  IN LoopHead([done EXCEPT !.k = @ + 1])

----------------------------------------------------------------------------
(* The global error handler (middleware/errorHandler.js)                    *)

\* an Error object: status and code are 0 / "" when the property is absent
Err(status, message, code) == [status |-> status, message |-> message, code |-> code]
NoErr == Err(0, << >>, "")

NoReply == [status |-> 0, success |-> TRUE, error |-> << >>]

\* errorHandler(err, req, res, next): the overrides run one after the other
errorHandler(e) ==
  LET status0 == IF e.status # 0 THEN e.status ELSE 500
      message0 == IF e.message # << >> THEN e.message
                  ELSE <<"Internal Server Error">>
      status1 == IF Includes(message0, "SerpAPI Error") THEN 502 ELSE status0
      status2 == IF Includes(message0, "Network Error") THEN 503 ELSE status1
      status3 == IF e.code = "ECONNREFUSED" THEN 503 ELSE status2
      message3 == IF e.code = "ECONNREFUSED" THEN <<"Database connection failed">>
                  ELSE message0
      status4 == IF Includes(message3, "required") THEN 400 ELSE status3
  IN [status |-> status4, success |-> FALSE, error |-> message3]

\* the errors handed to the handler: status 0 and code "" stand for an
\* absent property; a message is made of at most two parts
MessageParts == {"SerpAPI Error", "Network Error", "required", "Invalid API key"}

ErrorInputs ==
  { Err(st, m, c) :
      st \in {0, 400, 404},
      m \in {<< >>} \cup { <<x>> : x \in MessageParts }
                    \cup { <<x, y>> : x \in MessageParts, y \in MessageParts },
      c \in {"", "ECONNREFUSED", "ER_DUP_ENTRY"} }

----------------------------------------------------------------------------
(* The rate limiters (routes/authorRoutes.js, server.js)                    *)

\* limiter: max
LimiterMax == 10
\* strictLimiter: max
StrictMax == 20
\* "Limits each IP to 100 requests per 15 minutes"
DocumentedMax == 100
\* requests one client sends within one window
MaxArrivals == 12

Clients == {"ip1", "ip2"}
Routes == {"health", "fetch"}

\* per client: the count of each limiter in the current window, the number
\* of the first request refused in it (0: none), the last answer
NoHits == [limiter |-> 0, strictLimiter |-> 0, refusedAt |-> 0, status |-> 0]

\* app.use(limiter), then router.get('/fetch-articles', strictLimiter, ...):
\* each limiter counts the request and refuses it once its count exceeds max
Limit(h, route) ==
  LET n == h.limiter + 1
      pass == n <= LimiterMax
      m == IF pass /\ route = "fetch" THEN h.strictLimiter + 1 ELSE h.strictLimiter
      ok == pass /\ (route = "fetch" => m <= StrictMax)
  IN [limiter |-> n, strictLimiter |-> m,
      refusedAt |-> IF ~ok /\ h.refusedAt = 0 THEN n ELSE h.refusedAt,
      status |-> IF ok THEN 200 ELSE 429]

----------------------------------------------------------------------------
(* ParserService.parsePublicationInfo                                       *)

\* no year
NoYear == 0
\* nothing returned yet
NoInfo == [authors |-> UNDEF, journal |-> UNDEF, year |-> NoYear, publisher |-> UNDEF]

Digits == <<"0", "1", "2", "3", "4", "5", "6", "7", "8", "9">>
IsDigit(ch) == \E d \in 1..10 : Digits[d] = ch
DigitValue(ch) == (CHOOSE d \in 1..10 : Digits[d] = ch) - 1

\* \w of the regular expressions, on the characters the summaries are made of
IsWord(ch) == ch \notin {" ", ",", "-", "."}

\* the separator of summary.split(' - ')
Separator == <<" ", "-", " ">>

\* (variant: a separator found at any hyphen)
FindHyphen(s) ==
  IF \E p \in 1..Len(s) : s[p] = "-"
  THEN CHOOSE p \in 1..Len(s) : s[p] = "-" /\ \A u \in 1..(p - 1) : s[u] # "-"
  ELSE 0

\* position of the first separator in s, 0 when there is none
FindSeparator(s) ==
  LET At(p) == p + 2 <= Len(s) /\ SubSeq(s, p, p + 2) = Separator
  IN IF \E p \in 1..Len(s) : At(p)
     THEN CHOOSE p \in 1..Len(s) : At(p) /\ \A u \in 1..(p - 1) : ~At(u)
     ELSE 0

RECURSIVE SplitSeparator(_)
\* summary.split(' - ')
SplitSeparator(s) ==
  LET p == FindSeparator(s)
  IN IF p = 0 THEN <<s>>
     ELSE <<SubSeq(s, 1, p - 1)>> \o SplitSeparator(SubSeq(s, p + 3, Len(s)))

\* (19|20)\d{2} at position p of s
YearAt(s, p) ==
  /\ p >= 1 /\ p + 3 <= Len(s)
  /\ (s[p] = "1" /\ s[p + 1] = "9") \/ (s[p] = "2" /\ s[p + 1] = "0")
  /\ IsDigit(s[p + 2]) /\ IsDigit(s[p + 3])

\* \b just before position p of s
WordBoundary(s, p) ==
  (p - 1 >= 1 /\ p - 1 <= Len(s) /\ IsWord(s[p - 1]))
    # (p >= 1 /\ p <= Len(s) /\ IsWord(s[p]))

\* sourceYear.match(/\b(19|20)\d{2}\b/): position of the match, 0 for null
yearMatch(s) ==
  LET At(p) == WordBoundary(s, p) /\ YearAt(s, p) /\ WordBoundary(s, p + 4)
  IN IF \E p \in 1..Len(s) : At(p)
     THEN CHOOSE p \in 1..Len(s) : At(p) /\ \A u \in 1..(p - 1) : ~At(u)
     ELSE 0

\* parseInt of the four digits at p
parseInt(s, p) ==
  1000 * DigitValue(s[p]) + 100 * DigitValue(s[p + 1])
    + 10 * DigitValue(s[p + 2]) + DigitValue(s[p + 3])

RECURSIVE SpacesFrom(_, _)
\* length of the run of white space of s that starts at p
SpacesFrom(s, p) ==
  IF p <= Len(s) /\ IsSpace(s[p]) THEN 1 + SpacesFrom(s, p + 1) ELSE 0

\* length of the match of /,?\s*(19|20)\d{2}/ that starts at p, 0 for none
StripAt(s, p) ==
  LET c == IF s[p] = "," THEN 1 ELSE 0
      k == SpacesFrom(s, p + c)
  IN IF YearAt(s, p + c + k) THEN c + k + 4 ELSE 0

\* sourceYear.replace(/,?\s*(19|20)\d{2}/, ''): the first match is removed
stripYear(s) ==
  IF \E p \in 1..Len(s) : StripAt(s, p) > 0
  THEN LET p == CHOOSE q \in 1..Len(s) :
                  StripAt(s, q) > 0 /\ \A u \in 1..(q - 1) : StripAt(s, u) = 0
       IN SubSeq(s, 1, p - 1) \o SubSeq(s, p + StripAt(s, p), Len(s))
  ELSE s

\* x.trim() || null
TrimOrNull(s) == IF Trim(s) = << >> THEN NULL ELSE Trim(s)

\* ParserService.parsePublicationInfo
parsePublicationInfo(s) ==
  IF ~Truthy(s)
  THEN [authors |-> NULL, journal |-> NULL, year |-> NoYear, publisher |-> NULL]
  ELSE LET parts == SplitSeparator(s)
           sourceYear == Trim(parts[2])
           hasSource == Len(parts) >= 2 /\ parts[2] # << >>
           found == hasSource /\ yearMatch(sourceYear) # 0
       IN [authors |-> TrimOrNull(parts[1]),
           journal |-> IF ~hasSource THEN NULL
                       ELSE IF found THEN Trim(stripYear(sourceYear))
                       ELSE sourceYear,
           year |-> IF found THEN parseInt(sourceYear, yearMatch(sourceYear))
                    ELSE NoYear,
           publisher |-> IF Len(parts) >= 3 THEN TrimOrNull(parts[3]) ELSE NULL]

\* pieces of a summary
Pieces ==
  { <<"x">>, <<"x", " ", "-">>, <<"-", " ", "x">>, <<"-">>, <<"x", " ", "y">>,
    <<"x", ",">>, <<"x", "-", "y">>, <<"1", "9">> }

Years == { <<"1", "9", "9", "9">>, <<"2", "0", "2", "0">> }

\* "A - B, Y - C"
Form(A, B, Y, C) == A \o Separator \o B \o <<",", " ">> \o Y \o Separator \o C

\* a summary whose second segment is seg
Around(seg) == <<"x">> \o Separator \o seg \o Separator \o <<"z">>

\* second segments with digit runs and with no year
Segments ==
  { <<"v", "1", "9", "9", "9", "9", " ", "b", ",", " ", "2", "0", "0", "1">>,
    <<"x", "2", "0", "2", "0", ",", " ", "1", "9", "9", "9">>,
    <<"b", " ", "1", "9", "9", "9", " ", "2", "0", "0", "1">>,
    <<"b", ",", " ", " ", "2", "0", "0", "1", ".">>,
    <<"1", "9", "9", "9">>,
    <<"v", "1", "2", ",", "1", "8", "9", "9">>,
    <<"b", "1", "9", "9", "9">>,
    <<"b">>, <<" ">> }

\* values of publication_info.summary
SummaryInputs ==
  { Form(A, B, Y, C) : A \in Pieces, B \in Pieces, Y \in Years, C \in Pieces }
    \cup { Around(seg) : seg \in Segments }
    \cup { NULL, UNDEF, << >>, <<"x">>, <<"x">> \o Separator \o <<"y">>, Separator }

----------------------------------------------------------------------------
(* Inputs and initial states                                                *)

\* values of req.query.authors
QueryInputs ==
  { UNDEF,                                          \* parameter missing
    << >>,                                          \* authors=
    <<"a", ",", "b">>,                              \* two names
    <<"a", ",", " ", ",", "b">>,                    \* two names and a blank
    <<" ", ",", " ", ",", ",">>,                    \* no name at all
    <<"a", ",", "b", ",", "c", ",", "a">>,          \* four names
    <<"a", ",", "b", ",", "c">>,                    \* three distinct names
    <<"a", ",", "c", ",", "c">>,                    \* a name given twice
    <<" ", "a", ",", ",", "b", " ", ",", "a">> }    \* " a,,b ,a": a, b, a

Stored(id, gsid, title, deleted) ==
  Row(id, [google_scholar_id |-> gsid, paper_title |-> title, citation_count |-> 0],
      deleted)

\* contents of the articles table when the requests arrive
InitialTables ==
  { << >>,
    << Stored(1, "g1", Str("P"), TRUE), Stored(2, "g2", Str("Q"), FALSE) >> }

\* nothing has happened outside the pipeline
AsideIdle ==
  /\ thrown = NoErr /\ reply = NoReply
  /\ hits = [ip \in Clients |-> NoHits]
  /\ summary = NULL /\ info = NoInfo

Init ==
  /\ articles \in InitialTables
  /\ run = [r \in Runs |-> IdleRun]
  /\ faults = 0
  /\ served = 0
  /\ history = {}
  /\ AsideIdle

----------------------------------------------------------------------------
(* Steps: one per resumption of the handler                                 *)

\* the [author, g] pairs a request has saved
SavedPairs(rn) ==
  LET subs == Append(rn.results.authors, rn.authorResult)
  IN { [author |-> subs[p].author, g |-> subs[p].articles[n].google_scholar_id] :
         <<p, n>> \in { x \in (1..Len(subs)) \X (1..SaveCap) :
                          x[2] <= Len(subs[x[1]].articles) } }

\* history once the handler of request r has moved from rn to next
Remember(rn, next) ==
  IF rn.pc # "done" /\ next.pc = "done" /\ next.response.status = 200
  THEN history \cup SavedPairs(next) ELSE history

\* what an awaited call gave back: the call, the outcome, the row id if any
Return(call, out, id) ==
  [op |-> call.op, i |-> call.i, k |-> call.k, g |-> call.g, out |-> out, id |-> id]

\* the call request r is waiting for
Pending(r) == run[r].calls[Len(run[r].calls)]

\* request r resumes: its handler runs from rn to next on outcome out
Resume(r, next, out, id) ==
  \E rn \in {next} :
    /\ run' = [run EXCEPT ![r] =
                 [rn EXCEPT !.returns = Append(@, Return(Pending(r), out, id))]]
    /\ history' = Remember(run[r], rn)

AxiosOutcome(o) ==
  IF o.kind = "resolved"
  THEN IF o.dataError # "" THEN "embedded" ELSE "data"
  ELSE IF o.hasResponse THEN "http" ELSE "transport"

\* requests are numbered in their order of arrival
Request(r, q) ==
  /\ run[r].pc = "idle"
  /\ \A x \in 1..(r - 1) : run[x].pc # "idle"
  /\ served < MaxRequests
  /\ served' = served + 1
  /\ run' = [run EXCEPT ![r] =
               fetchArticlesByAuthors(
                 [run[r] EXCEPT !.query = q, !.earlier = history])]
  /\ UNCHANGED <<articles, faults, history>>
  /\ UNCHANGED aside

SearchReturns(r, o) ==
  /\ run[r].pc = "search"
  /\ o \in AxiosFailures => faults < MaxFaults
  /\ faults' = IF o \in AxiosFailures THEN faults + 1 ELSE faults
  /\ Resume(r, OnSearch(run[r], searchByAuthor(o)), AxiosOutcome(o), 0)
  /\ UNCHANGED <<articles, served>>
  /\ UNCHANGED aside

ExistsReturns(r, fails) ==
  /\ run[r].pc = "exists"
  /\ fails => faults < MaxFaults
  /\ faults' = IF fails THEN faults + 1 ELSE faults
  /\ LET exists == existsByGoogleScholarId(articles, Pending(r).g)
     IN IF fails
        THEN Resume(r, CatchAuthor(run[r], ConnectionLostMsg), "lost", 0)
        ELSE Resume(r, OnExists(run[r], exists),
                    IF exists THEN "found" ELSE "absent", 0)
  /\ UNCHANGED <<articles, served>>
  /\ UNCHANGED aside

CreateReturns(r, lost) ==
  /\ run[r].pc = "create"
  /\ lost => faults < MaxFaults
  /\ faults' = IF lost THEN faults + 1 ELSE faults
  /\ \E dbArticle \in {PrepareArticle(run[r].validArticles[run[r].k])} :
       \E res \in {create(articles, dbArticle, lost)} :
         /\ articles' = res.table
         /\ Resume(r, OnCreate(run[r], dbArticle, res),
                   IF res.ok THEN "OK"
                   ELSE IF lost THEN "lost"
                   ELSE ExecuteInsert(articles, dbArticle).code,
                   res.insertId)
  /\ UNCHANGED served
  /\ UNCHANGED aside

DelayElapses(r) ==
  /\ run[r].pc = "delay"
  /\ Resume(r, NextAuthor(PushAuthor(run[r])), "elapsed", 0)
  /\ UNCHANGED <<articles, faults, served>>
  /\ UNCHANGED aside

\* the response has been sent and the request's summary is discarded
Discard(r) ==
  /\ run[r].pc = "done"
  /\ run' = [run EXCEPT ![r] = IdleRun]
  /\ UNCHANGED <<articles, faults, served, history>>
  /\ UNCHANGED aside

Step(r) ==
  \/ \E q \in QueryInputs : Request(r, q)
  \/ \E o \in {AxiosSuccess(run[r].authorResult.author)} \cup AxiosFailures :
       SearchReturns(r, o)
  \/ \E fails \in BOOLEAN : ExistsReturns(r, fails)
  \/ \E lost \in BOOLEAN : CreateReturns(r, lost)
  \/ DelayElapses(r)

\* one request, with environment failures
Next == Step(1)

Spec == Init /\ [][Next]_vars

\* requests in flight together, in an environment that does not fail
InitConcurrent ==
  /\ articles \in InitialTables
  /\ run = [r \in Runs |-> IdleRun]
  /\ faults = MaxFaults
  /\ served = 0
  /\ history = {}
  /\ AsideIdle

NextConcurrent == \E r \in Runs : Step(r)

SpecConcurrent == InitConcurrent /\ [][NextConcurrent]_vars

\* an awaited call returns: the HTTP call within its timeout, a storage call,
\* the timer of the pause
Resumes(r) ==
  \/ \E o \in {AxiosSuccess(run[r].authorResult.author)} \cup AxiosFailures :
       SearchReturns(r, o)
  \/ \E fails \in BOOLEAN : ExistsReturns(r, fails)
  \/ \E lost \in BOOLEAN : CreateReturns(r, lost)
  \/ DelayElapses(r)

\* one request, every awaited call of which eventually returns
SpecLive == Init /\ [][Next]_vars /\ WF_vars(Resumes(1))

\* one request after the other, with environment failures
NextRerun == Step(1) \/ Discard(1)

SpecRerun == Init /\ [][NextRerun]_vars

\* the pipeline at rest
PipelineIdle ==
  /\ articles = << >>
  /\ run = [r \in Runs |-> IdleRun]
  /\ faults = 0
  /\ served = 0
  /\ history = {}

\* an error reaches the error handler
InitErrors ==
  /\ PipelineIdle
  /\ thrown \in ErrorInputs /\ reply = NoReply
  /\ hits = [ip \in Clients |-> NoHits]
  /\ summary = NULL /\ info = NoInfo

Handle ==
  /\ reply = NoReply
  /\ reply' = errorHandler(thrown)
  /\ UNCHANGED <<pipeline, thrown, hits, summary, info>>

NextErrors == Handle

SpecErrors == InitErrors /\ [][NextErrors]_vars

\* requests arrive at the rate limiters
InitLimiter == PipelineIdle /\ AsideIdle

Arrives(ip, route) ==
  /\ hits[ip].limiter < MaxArrivals
  /\ hits' = [hits EXCEPT ![ip] = Limit(hits[ip], route)]
  /\ UNCHANGED <<pipeline, thrown, reply, summary, info>>

\* the 15-minute window of a client ends
WindowEnds(ip) ==
  /\ hits[ip].limiter > 0
  /\ hits' = [hits EXCEPT ![ip] = NoHits]
  /\ UNCHANGED <<pipeline, thrown, reply, summary, info>>

NextLimiter ==
  \/ \E ip \in Clients, route \in Routes : Arrives(ip, route)
  \/ \E ip \in Clients : WindowEnds(ip)

SpecLimiter == InitLimiter /\ [][NextLimiter]_vars

\* a summary is handed to the parser
InitParser ==
  /\ PipelineIdle
  /\ thrown = NoErr /\ reply = NoReply
  /\ hits = [ip \in Clients |-> NoHits]
  /\ summary \in SummaryInputs /\ info = NoInfo

Parse ==
  /\ info = NoInfo
  /\ info' = parsePublicationInfo(summary)
  /\ UNCHANGED <<pipeline, thrown, reply, hits, summary>>

NextParser == Parse

SpecParser == InitParser /\ [][NextParser]_vars

----------------------------------------------------------------------------
(* Vocabulary of the properties                                             *)

InFlight(rn) == rn.pc \in {"search", "exists", "create", "delay"}

\* the sub-summaries of a request: those pushed, and the one being filled
Subs(rn) ==
  IF InFlight(rn) THEN Append(rn.results.authors, rn.authorResult)
  ELSE rn.results.authors

\* the calls of one kind a request issued for author position p
CallsOf(rn, op, p) ==
  { n \in 1..Len(rn.calls) : rn.calls[n].op = op /\ rn.calls[n].i = p }

\* the returns of one kind and outcome a request received for position p
ReturnsOf(rn, op, out, p) ==
  { n \in 1..Len(rn.returns) :
      rn.returns[n].op = op /\ rn.returns[n].out = out /\ rn.returns[n].i = p }

\* the rows the storage engine inserted for a request, at position p
RowsBy(rn, p) == ReturnsOf(rn, "create", "OK", p)

\* the positions whose block was ended by a failure
FaultAt(rn) ==
  { rn.returns[n].i : n \in
      { m \in 1..Len(rn.returns) :
          \/ rn.returns[m].out \in {"embedded", "http", "transport"}
          \/ rn.returns[m].op = "exists" /\ rn.returns[m].out = "lost" } }

\* number of names in a raw authors parameter: the comma-free segments that
\* hold a character other than a space, counted at their first such character
NameCount(q) ==
  IF q = UNDEF THEN 0
  ELSE Cardinality({ p \in 1..Len(q) :
         /\ q[p] \notin {",", " "}
         /\ \A u \in 1..(p - 1) :
              (\A v \in u..(p - 1) : q[v] # ",") => q[u] = " " })

RECURSIVE SumSaved(_)
SumSaved(subs) == IF subs = << >> THEN 0 ELSE Head(subs).saved + SumSaved(Tail(subs))

RECURSIVE SumExists(_)
SumExists(subs) ==
  IF subs = << >> THEN 0 ELSE Head(subs).already_exists + SumExists(Tail(subs))

----------------------------------------------------------------------------
C3_InvalidInputRejectedBeforeIO ==
  \A r \in Runs :
    (run[r].pc # "idle" /\ NameCount(run[r].query) # 3) =>
      /\ run[r].pc = "done"
      /\ run[r].response.status = 400
      /\ ~run[r].response.success
      /\ run[r].response.error # NoError
      /\ run[r].calls = << >> /\ run[r].returns = << >>

\* a list of 4 names has been refused
C3_Witness ==
  \E r \in Runs :
    NameCount(run[r].query) = 4 /\ run[r].response.status = 400

(* C4: with 3 names, a failure of one author's search or existence check    *)
(* stays in that author's block: the request ends with a 200 summary of 3   *)
(* sub-summaries, each position searched once; a failed position carries an *)
(* error, and every other position went through its candidates in order     *)
(* until 3 were saved or none was left.                                     *)
C4_ProcessedNormally(rn, p) ==
  LET sub == rn.results.authors[p]
      valid == filterValidPublications(parseOrganicResults(Catalog(rn.authorList[p])))
      checks == { rn.calls[n].k : n \in CallsOf(rn, "exists", p) }
  IN /\ sub.error = NoArticlesMsg <=> Catalog(rn.authorList[p]) = << >>
     /\ sub.error = NoArticlesMsg => checks = {} /\ sub.fetched = 0
     /\ sub.error = NoError =>
          /\ sub.fetched = Len(valid)
          /\ checks = 1..Cardinality(checks)
          /\ Cardinality(checks) = Cardinality(CallsOf(rn, "exists", p))
          /\ sub.saved = 3 \/ checks = 1..Len(valid)
          /\ sub.saved = Cardinality(RowsBy(rn, p))
          /\ sub.saved + sub.already_exists
               + Cardinality(ReturnsOf(rn, "create", "lost", p))
               = Cardinality(checks)

C4_PartialFailureIsolation ==
  \A r \in Runs :
    (run[r].pc = "done" /\ NameCount(run[r].query) = 3) =>
      /\ run[r].response.status = 200 /\ run[r].response.success
      /\ Len(run[r].results.authors) = 3
      /\ \A p \in 1..3 :
           /\ run[r].results.authors[p].author = run[r].authorList[p]
           /\ Cardinality(CallsOf(run[r], "search", p)) = 1
           /\ p \in FaultAt(run[r]) => run[r].results.authors[p].error # NoError
           /\ p \notin FaultAt(run[r]) =>
                /\ run[r].results.authors[p].error \in {NoError, NoArticlesMsg}
                /\ C4_ProcessedNormally(run[r], p)

\* the second author failed; the first and the third saved records
C4_Witness ==
  \E r \in Runs :
    /\ run[r].pc = "done" /\ FaultAt(run[r]) = {2}
    /\ Len(run[r].results.authors) = 3
    /\ run[r].results.authors[1].saved > 0
    /\ run[r].results.authors[3].saved > 0

(* C5: in every state of a request, total_saved is the sum of the           *)
(* sub-summaries' saved and total_already_exists the sum of their           *)
(* already_exists.                                                          *)
C5_TotalsAreSums ==
  \A r \in Runs :
    /\ run[r].results.total_saved = SumSaved(Subs(run[r]))
    /\ run[r].results.total_already_exists = SumExists(Subs(run[r]))

\* a finished request that saw an existence hit, a duplicate on insert,
\* a lost insert, a failed author and a saved record
C5_Witness ==
  \E r \in Runs :
    /\ run[r].pc = "done" /\ run[r].results.total_saved > 0
    /\ \E x \in run[r].skipped : x.via = "check"
    /\ \E x \in run[r].skipped : x.via = "insert"
    /\ \E p \in 1..3 : ReturnsOf(run[r], "create", "lost", p) # {}
    /\ FaultAt(run[r]) # {}

(* C2: the table never holds two rows with the same google_scholar_id, and *)
(* over all requests, in flight together or not, at most one saved-record   *)
(* reference and one inserted row exist for an identifier.                  *)
C2_SavedRefs(g) ==
  { x \in Runs \X (1..RequiredAuthors) \X (1..SaveCap) :
      /\ x[2] <= Len(Subs(run[x[1]]))
      /\ x[3] <= Len(Subs(run[x[1]])[x[2]].articles)
      /\ Subs(run[x[1]])[x[2]].articles[x[3]].google_scholar_id = g }

C2_Inserts(g) ==
  UNION { { <<r, n>> : n \in { m \in 1..Len(run[r].returns) :
                                 /\ run[r].returns[m].op = "create"
                                 /\ run[r].returns[m].out = "OK"
                                 /\ run[r].returns[m].g = g } } : r \in Runs }

C2_NoDuplicateIds ==
  /\ \A m, n \in 1..Len(articles) :
       m # n => articles[m].google_scholar_id # articles[n].google_scholar_id
  /\ \A m \in 1..Len(articles) :
       /\ Cardinality(C2_SavedRefs(articles[m].google_scholar_id)) <= 1
       /\ Cardinality(C2_Inserts(articles[m].google_scholar_id)) <= 1

\* two requests raced on an identifier: one saved it, the other, whose
\* existence check had been negative, was refused at insert
C2_Witness ==
  \E r1, r2 \in Runs :
    /\ r1 # r2
    /\ \E x \in run[r2].skipped :
         /\ x.via = "insert"
         /\ \E y \in C2_SavedRefs(x.g) : y[1] = r1

(* C6: in a request that follows requests whose saved records are still in  *)
(* storage, none of those records is inserted again or counted or listed    *)
(* as saved; each of them that the request existence-checks for the same    *)
(* author is found and counted as already_exists; when the author's block   *)
(* ends without error and with fewer than 3 saved, every one of them has    *)
(* been so counted; and stored rows are never changed or removed.           *)
C6_Earlier(rn, p) == { e \in rn.earlier : e.author = rn.authorList[p] }

C6_Counted(rn, p, g) == [i |-> p, via |-> "check", g |-> g] \in rn.skipped

C6_NotSavedAgain(rn) ==
  LET gs == { e.g : e \in rn.earlier }
  IN /\ \A n \in 1..Len(rn.calls) :
          rn.calls[n].op = "create" => rn.calls[n].g \notin gs
     /\ \A p \in 1..Len(Subs(rn)) : \A n \in 1..Len(Subs(rn)[p].articles) :
          Subs(rn)[p].articles[n].google_scholar_id \notin gs

C6_CheckedIsCounted(rn) ==
  /\ \A n \in 1..Len(rn.returns) :
       LET e == rn.returns[n]
       IN (e.op = "exists" /\ e.out # "lost"
             /\ \E x \in C6_Earlier(rn, e.i) : x.g = e.g) =>
            e.out = "found" /\ C6_Counted(rn, e.i, e.g)
  /\ \A p \in 1..Len(Subs(rn)) :
       Subs(rn)[p].already_exists >=
         Cardinality({ x \in C6_Earlier(rn, p) : C6_Counted(rn, p, x.g) })

C6_UncappedCountsAll(rn) ==
  \A p \in 1..Len(rn.results.authors) :
    (rn.results.authors[p].error = NoError
       /\ rn.results.authors[p].saved < SaveCap) =>
      \A e \in C6_Earlier(rn, p) : C6_Counted(rn, p, e.g)

C6_RowsKept ==
  /\ Len(articles') >= Len(articles)
  /\ \A m \in 1..Len(articles) : articles'[m] = articles[m]

C6_RerunSkipsReachedRecords ==
  /\ [](\A r \in Runs : /\ C6_NotSavedAgain(run[r])
                         /\ C6_CheckedIsCounted(run[r])
                         /\ C6_UncappedCountsAll(run[r]))
  /\ [][C6_RowsKept]_vars

\* a repeated request that was answered after counting, through the
\* existence check, a record an earlier request had saved for the author
C6_Witness ==
  \E r \in Runs :
    /\ run[r].pc = "done" /\ run[r].response.status = 200
    /\ \E p \in 1..3 : \E e \in C6_Earlier(run[r], p) : C6_Counted(run[r], p, e.g)

(* C6, as stated: in a repeated request, for an author whose search         *)
(* returned its results and whose block met no failure, each record an      *)
(* earlier request saved for that author is skipped through the existence   *)
(* check and counted as already_exists.                                     *)
C6_RerunSkipsAllRecords ==
  \A r \in Runs : \A p \in 1..Len(run[r].results.authors) :
    (ReturnsOf(run[r], "search", "data", p) # {}
       /\ run[r].results.authors[p].error = NoError) =>
      \A e \in C6_Earlier(run[r], p) :
        /\ C6_Counted(run[r], p, e.g)
        /\ run[r].results.authors[p].already_exists >=
             Cardinality(C6_Earlier(run[r], p))

(* C7: when the insert that follows a negative existence check is refused   *)
(* by the unique index, the candidate is counted as already_exists for the  *)
(* author and the request, nothing is counted or listed as saved, no save   *)
(* slot is used, no error is set, the table is unchanged, and the loop      *)
(* goes on with the next candidate.                                         *)
C7_Continues(a, b) ==
  IF a.k < Len(a.validArticles) /\ a.savedCount < 3
  THEN /\ b.pc = "exists" /\ b.i = a.i /\ b.k = a.k + 1
       /\ b.savedCount = a.savedCount
       /\ b.calls = Append(a.calls, Call("exists", a.i, a.k + 1,
                                         a.validArticles[a.k + 1].google_scholar_id))
  ELSE /\ b.pc \in {"delay", "search", "done"}
       /\ b.pc = "search" => b.i = a.i + 1
       /\ b.pc = "done" => a.i = 3 /\ Len(b.results.authors) = 3

C7_Step(r) ==
  LET a == run[r]
      b == run'[r]
  IN (a.pc = "create" /\ Len(b.returns) = Len(a.returns) + 1
        /\ b.returns[Len(b.returns)].out = "ER_DUP_ENTRY") =>
       /\ Subs(b)[a.i].already_exists = a.authorResult.already_exists + 1
       /\ b.results.total_already_exists = a.results.total_already_exists + 1
       /\ Subs(b)[a.i].saved = a.authorResult.saved
       /\ Subs(b)[a.i].articles = a.authorResult.articles
       /\ b.results.total_saved = a.results.total_saved
       /\ b.results.articles_saved = a.results.articles_saved
       /\ Subs(b)[a.i].error = NoError
       /\ articles' = articles
       /\ C7_Continues(a, b)

C7_DuplicateOnInsertCounted == [][\A r \in Runs : C7_Step(r)]_vars

\* an insert was refused although the row it collided with is live: another
\* request inserted it after this request's existence check
C7_Witness ==
  \E r \in Runs :
    /\ run[r].returns # << >>
    /\ run[r].returns[Len(run[r].returns)].out = "ER_DUP_ENTRY"
    /\ existsByGoogleScholarId(articles, run[r].returns[Len(run[r].returns)].g)

(* C8: when an insert fails for a reason other than the unique index, no    *)
(* counter and no list of the author or of the request changes, the table   *)
(* is unchanged, no error is set, and the loop goes on with the author's    *)
(* next candidate and then with the remaining authors.                      *)
C8_Step(r) ==
  LET a == run[r]
      b == run'[r]
  IN (a.pc = "create" /\ Len(b.returns) = Len(a.returns) + 1
        /\ b.returns[Len(b.returns)].out \in {"lost", "ER_BAD_NULL_ERROR"}) =>
       /\ Subs(b)[a.i].already_exists = a.authorResult.already_exists
       /\ Subs(b)[a.i].saved = a.authorResult.saved
       /\ Subs(b)[a.i].articles = a.authorResult.articles
       /\ Subs(b)[a.i].error = NoError
       /\ b.results.total_already_exists = a.results.total_already_exists
       /\ b.results.total_saved = a.results.total_saved
       /\ b.results.articles_saved = a.results.articles_saved
       /\ b.skipped = a.skipped
       /\ articles' = articles
       /\ C7_Continues(a, b)

C8_OtherInsertErrorSkipped == [][\A r \in Runs : C8_Step(r)]_vars

\* after a lost insert, a later candidate of the same author and a candidate
\* of a later author were saved
C8_Witness ==
  \E r \in Runs : \E n \in 1..Len(run[r].returns) :
    /\ run[r].returns[n].op = "create" /\ run[r].returns[n].out = "lost"
    /\ \E m \in (n + 1)..Len(run[r].returns) :
         run[r].returns[m].out = "OK" /\ run[r].returns[m].i = run[r].returns[n].i
    /\ \E m \in (n + 1)..Len(run[r].returns) :
         run[r].returns[m].out = "OK" /\ run[r].returns[m].i > run[r].returns[n].i

(* C9: a timeout or transport failure is raised as a network error; a       *)
(* response that carries an error field is raised with that message and is  *)
(* never classified as a network error.                                     *)
C9_FailureCategoriesDistinct ==
  \A r \in Runs : \A n \in 1..Len(run[r].returns) :
    LET e == run[r].returns[n]
        error == Subs(run[r])[e.i].error
    IN /\ (e.op = "search" /\ e.out = "transport") =>
            Includes(error, "Network Error") /\ Includes(error, TimeoutMsg)
       /\ (e.op = "search" /\ e.out = "http") =>
            ~Includes(error, "Network Error") /\ Includes(error, RemoteMsg)
       /\ (e.op = "search" /\ e.out = "embedded") =>
            ~Includes(error, "Network Error") /\ Includes(error, QuotaMsg)

(* C10: a request with 3 names ends with a response whatever fails; each    *)
(* list entry is searched exactly once, each candidate of an entry is       *)
(* existence-checked at most once and inserted at most once, and at most 3  *)
(* searches are issued.                                                     *)
C10_Bounded ==
  \A r \in Runs :
    /\ \A m, n \in 1..Len(run[r].calls) :
         m # n => run[r].calls[m] # run[r].calls[n]
    /\ Cardinality({ n \in 1..Len(run[r].calls) : run[r].calls[n].op = "search" }) <= 3
    /\ \A n \in 1..Len(run[r].calls) :
         run[r].calls[n].op \in {"exists", "create"} =>
           run[r].calls[n].k \in 1..10
    /\ run[r].pc = "done" =>
         /\ run[r].response.status \in {200, 400}
         /\ NameCount(run[r].query) = 3 =>
              /\ run[r].response.status = 200
              /\ \A p \in 1..3 : Cardinality(CallsOf(run[r], "search", p)) = 1

C10_TerminatesBounded ==
  /\ [](C10_Bounded)
  /\ \A r \in Runs : (InFlight(run[r]) ~> run[r].pc = "done")

\* a finished request that met a search failure, a failed existence check
\* and a lost insert
C10_Witness ==
  \E r \in Runs :
    /\ run[r].pc = "done" /\ run[r].response.status = 200
    /\ \E n \in 1..Len(run[r].returns) :
         run[r].returns[n].op = "search" /\ run[r].returns[n].out = "transport"
    /\ \E n \in 1..Len(run[r].returns) :
         run[r].returns[n].op = "exists" /\ run[r].returns[n].out = "lost"
    /\ \E n \in 1..Len(run[r].returns) :
         run[r].returns[n].op = "create" /\ run[r].returns[n].out = "lost"

(* C11: citation_count is never negative: every parsed record, every       *)
(* record handed to storage and every stored row has citation_count >= 0,   *)
(* whatever cited_by.total the search item carries.                         *)
C11_CitationCountNeverNegative ==
  /\ \A r \in Runs : \A k \in 1..Len(run[r].validArticles) :
       /\ run[r].validArticles[k].citation_count >= 0
       /\ PrepareArticle(run[r].validArticles[k]).citation_count >= 0
  /\ \A m \in 1..Len(articles) : articles[m].citation_count >= 0

(* C12: the error handler answers a remote-API failure (message marked     *)
(* 'SerpAPI Error') 502, a connectivity failure (message marked 'Network    *)
(* Error', or code ECONNREFUSED) 503 and a malformed-input failure 400,     *)
(* never the status of another category, always with success = false and    *)
(* an error message.                                                        *)
C12_Remote(e) ==
  /\ Includes(e.message, "SerpAPI Error")
  /\ ~Includes(e.message, "Network Error") /\ e.code # "ECONNREFUSED"

C12_Connectivity(e) ==
  /\ Includes(e.message, "Network Error") \/ e.code = "ECONNREFUSED"
  /\ ~Includes(e.message, "SerpAPI Error")

C12_Malformed(e) ==
  /\ ~Includes(e.message, "SerpAPI Error") /\ ~Includes(e.message, "Network Error")
  /\ e.code # "ECONNREFUSED"
  /\ e.status = 400 \/ Includes(e.message, "required")

C12_StatusDistinguishesCategories ==
  reply # NoReply =>
    /\ C12_Remote(thrown) => reply.status = 502
    /\ C12_Connectivity(thrown) => reply.status = 503
    /\ C12_Malformed(thrown) => reply.status = 400
    /\ ~reply.success /\ reply.error # << >>

(* C13: within one window every client has its first 100 requests served:  *)
(* a request is refused only after 100 requests of that client, or, on the  *)
(* fetch-articles route, after 20 requests to that route.                   *)
C13_FirstHundredServed ==
  \A ip \in Clients :
    hits[ip].refusedAt # 0 =>
      hits[ip].refusedAt > DocumentedMax \/ hits[ip].strictLimiter > StrictMax

(* C14: for every summary "A - B, Y - C", with Y a year and A, B, C         *)
(* non-empty, trimmed, free of the separator and of year-like digit runs,   *)
(* and A not ending in " -", parsePublicationInfo returns authors = A,      *)
(* journal = B, year = Y and publisher = C; for an absent or empty summary  *)
(* it returns the four fields absent.                                       *)
C14_Plain(x) ==
  /\ x # << >> /\ Trim(x) = x /\ FindSeparator(x) = 0
  /\ \A p \in 1..Len(x) : ~YearAt(x, p)

C14_EndsOpen(x) == Len(x) >= 2 /\ SubSeq(x, Len(x) - 1, Len(x)) = <<" ", "-">>

C14_Parsed(A, B, Y, C) ==
  [authors |-> A, journal |-> B, year |-> parseInt(Y, 1), publisher |-> C]

C14_Absent == [authors |-> NULL, journal |-> NULL, year |-> NoYear, publisher |-> NULL]

C14_FormParsedUnambiguous ==
  info # NoInfo =>
    /\ \A A \in Pieces, B \in Pieces, Y \in Years, C \in Pieces :
         (C14_Plain(A) /\ C14_Plain(B) /\ C14_Plain(C) /\ ~C14_EndsOpen(A)
            /\ summary = Form(A, B, Y, C)) =>
           info = C14_Parsed(A, B, Y, C)
    /\ summary \in {NULL, UNDEF, << >>} => info = C14_Absent

\* a parsed summary whose journal ends in a comma and whose publisher
\* begins with a hyphen
C14_Witness ==
  /\ info # NoInfo
  /\ summary = Form(<<"x", "-", "y">>, <<"x", ",">>, <<"2", "0", "2", "0">>,
                    <<"-", " ", "x">>)
  /\ info.journal = <<"x", ",">> /\ info.year = 2020

(* C14, as stated: the same without the condition on the end of A.          *)
C14_FormParsed ==
  info # NoInfo =>
    /\ \A A \in Pieces, B \in Pieces, Y \in Years, C \in Pieces :
         (C14_Plain(A) /\ C14_Plain(B) /\ C14_Plain(C)
            /\ summary = Form(A, B, Y, C)) =>
           info = C14_Parsed(A, B, Y, C)
    /\ summary \in {NULL, UNDEF, << >>} => info = C14_Absent

(* C15: for each list entry the valid candidates are existence-checked one  *)
(* at a time in the order returned; a candidate is inserted only after its  *)
(* own check found it absent; the records saved are, in order, exactly the  *)
(* candidates whose insert succeeded; a candidate found to exist uses no    *)
(* save slot; the loop stops early only at 3 saved; and once 3 are saved    *)
(* no further candidate of the entry is checked or inserted.                *)
C15_Valid(rn, p) ==
  filterValidPublications(parseOrganicResults(Catalog(rn.authorList[p])))

\* the calls of the save loop for position p, in the order issued
C15_LoopCalls(rn, p) ==
  SelectSeq([n \in 1..Len(rn.calls) |-> [n |-> n, c |-> rn.calls[n]]],
            LAMBDA x : x.c.i = p /\ x.c.op \in {"exists", "create"})

C15_Outcome(rn, x) == IF x.n <= Len(rn.returns) THEN rn.returns[x.n].out ELSE "pending"

C15_InOrder(rn, p) ==
  LET loop == C15_LoopCalls(rn, p)
      valid == C15_Valid(rn, p)
  IN \A j \in 1..Len(loop) :
       LET c == loop[j].c
       IN /\ c.k \in 1..Len(valid) /\ c.g = valid[c.k].google_scholar_id
          /\ c.op = "exists" =>
               /\ j = 1 => c.k = 1
               /\ j > 1 => /\ c.k = loop[j - 1].c.k + 1
                           /\ C15_Outcome(rn, loop[j - 1]) # "absent"
          /\ c.op = "create" =>
               /\ j > 1 /\ loop[j - 1].c.op = "exists" /\ loop[j - 1].c.k = c.k
               /\ C15_Outcome(rn, loop[j - 1]) = "absent"

C15_SavedAreInserted(rn, p) ==
  LET loop == C15_LoopCalls(rn, p)
      ok == SelectSeq(loop, LAMBDA x : x.c.op = "create" /\ C15_Outcome(rn, x) = "OK")
      sub == Subs(rn)[p]
  IN /\ Len(sub.articles) = Len(ok) /\ sub.saved = Len(ok) /\ Len(ok) <= SaveCap
     /\ \A j \in 1..Len(ok) : sub.articles[j].google_scholar_id = ok[j].c.g
     /\ (p = rn.i /\ rn.pc \in {"exists", "create"}) => rn.savedCount = Len(ok)
     /\ Len(ok) = SaveCap =>
          loop[Len(loop)] = ok[Len(ok)]
     /\ (p <= Len(rn.results.authors) /\ sub.error = NoError /\ Len(ok) < SaveCap) =>
          { loop[j].c.k : j \in 1..Len(loop) } = 1..Len(C15_Valid(rn, p))

C15_OrderedFirstThree ==
  \A r \in Runs : \A p \in 1..Len(Subs(run[r])) :
    C15_InOrder(run[r], p) /\ C15_SavedAreInserted(run[r], p)

\* an entry is finished: its second candidate was found to exist, and the
\* two candidates after it were saved
C15_Witness ==
  \E r \in Runs :
    /\ Len(run[r].results.authors) >= 1
    /\ [i |-> 1, via |-> "check", g |-> "g2"] \in run[r].skipped
    /\ Len(run[r].results.authors[1].articles) = 2
    /\ run[r].results.authors[1].articles[1].google_scholar_id = "g3"
    /\ run[r].results.authors[1].articles[2].google_scholar_id = "g4"

(* C16: after a list entry whose search returned results has been fully    *)
(* processed, the request pauses if and only if the entry is not the last   *)
(* of the list; it never pauses after the third entry.                      *)
C16_PausesExceptAfterLast ==
  \A r \in Runs : \A p \in 1..RequiredAuthors :
    /\ CallsOf(run[r], "delay", p) # {} => p < RequiredAuthors
    /\ (p <= Len(run[r].results.authors)
          /\ run[r].results.authors[p].error = NoError) =>
         (CallsOf(run[r], "delay", p) # {} <=> p < RequiredAuthors)

(* C17: when a year token is found in the second segment, the journal is    *)
(* that segment with exactly the matched token, and a comma and white       *)
(* space just before it, removed, and the year is that token; when none is  *)
(* found the year is absent and the journal is the whole trimmed segment.   *)
RECURSIVE C17_SpacesBefore(_, _)
C17_SpacesBefore(s, p) ==
  IF p > 1 /\ IsSpace(s[p - 1]) THEN 1 + C17_SpacesBefore(s, p - 1) ELSE 0

\* first position of the comma and white space that lead to position p
C17_LeadStart(s, p) ==
  LET q == p - C17_SpacesBefore(s, p)
  IN IF q > 1 /\ s[q - 1] = "," THEN q - 1 ELSE q

C17_Without(s, p) ==
  Trim(SubSeq(s, 1, C17_LeadStart(s, p) - 1) \o SubSeq(s, p + 4, Len(s)))

C17_StripsMatchedYear ==
  (info # NoInfo /\ Truthy(summary) /\ Len(SplitSeparator(summary)) >= 2
     /\ SplitSeparator(summary)[2] # << >>) =>
    LET seg == Trim(SplitSeparator(summary)[2])
        p == yearMatch(seg)
    IN /\ p # 0 => /\ info.year = parseInt(seg, p)
                   /\ info.journal = C17_Without(seg, p)
       /\ p = 0 => info.year = NoYear /\ info.journal = seg

(* C18: every record handed to storage, and every row stored, has a         *)
(* non-empty google_scholar_id and a non-empty paper_title.                 *)
C18_Filled(a) ==
  /\ a.google_scholar_id \notin {NoId, ""}
  /\ a.paper_title \notin {NULL, UNDEF, << >>}

C18_StoredTitleNonEmpty ==
  /\ \A r \in Runs :
       run[r].pc = "create" =>
         C18_Filled(PrepareArticle(run[r].validArticles[run[r].k]))
  /\ \A m \in 1..Len(articles) : C18_Filled(articles[m])

(* C19: a request that passes validation is answered with exactly three    *)
(* sub-summaries, one per name of the list in the order given, whatever     *)
(* happened to each; in every state articles_saved has total_saved entries, *)
(* each of which is an entry of the articles list of the sub-summary of the *)
(* author it names, and total_fetched is the sum of the fetched counts.     *)
RECURSIVE C19_SumFetched(_)
C19_SumFetched(subs) ==
  IF subs = << >> THEN 0 ELSE Head(subs).fetched + C19_SumFetched(Tail(subs))

\* the entries of the sub-summaries' articles lists, in order
C19_Listed(rn) ==
  { <<p, j>> \in (1..RequiredAuthors) \X (1..SaveCap) :
      p <= Len(Subs(rn)) /\ j <= Len(Subs(rn)[p].articles) }

C19_Matches(rn, n, x) ==
  /\ Subs(rn)[x[1]].articles[x[2]].id = rn.results.articles_saved[n].article_id
  /\ Subs(rn)[x[1]].articles[x[2]].title = rn.results.articles_saved[n].title
  /\ Subs(rn)[x[1]].author = rn.results.articles_saved[n].author_searched

C19_SummaryShape ==
  \A r \in Runs :
    LET rn == run[r]
    IN /\ (rn.pc = "done" /\ rn.response.status # 400) =>
            /\ rn.response.status = 200 /\ rn.response.success
            /\ rn.authorList = ParseAuthorList(rn.query)
            /\ Len(rn.results.authors) = RequiredAuthors
            /\ \A p \in 1..RequiredAuthors :
                 rn.results.authors[p].author = rn.authorList[p]
       /\ Len(rn.results.articles_saved) = rn.results.total_saved
       /\ Cardinality(C19_Listed(rn)) = rn.results.total_saved
       /\ \A n \in 1..Len(rn.results.articles_saved) :
            Cardinality({ x \in C19_Listed(rn) : C19_Matches(rn, n, x) }) = 1
       /\ rn.results.total_fetched = C19_SumFetched(Subs(rn))

\* an answered request with an entry that failed, an entry without
\* results and an entry that saved records
C19_Witness ==
  \E r \in Runs :
    /\ run[r].pc = "done" /\ Len(run[r].results.authors) = 3
    /\ FaultAt(run[r]) # {}
    /\ \E p \in 1..3 : run[r].results.authors[p].error = NoArticlesMsg
    /\ \E p \in 1..3 : run[r].results.authors[p].saved > 0
    /\ run[r].results.total_fetched > 0

============================================================================
